---------------------------- MODULE Spec2Model ----------------------------
(***************************************************************************)
(* Model of android/src/main/cpp/device_trust_native.cpp: the native       *)
(* signal collector of device_trust.                                       *)
(*                                                                         *)
(* A std::string is a sequence of byte values (0..255); positions are      *)
(* 0-based as in the C++ source and npos stands for std::string::npos.     *)
(* The entry point runs analyzeProcMaps, checkFdForFrida, checkLibcSymbol  *)
(* in sequence and then builds the JSON text; pc is its position.          *)
(***************************************************************************)
EXTENDS Integers, Sequences, FiniteSets, TLC

VARIABLES
    pc,             \* position of the entry point / of the running detector
    mapsAvailable,  \* environment: /proc/self/maps can be opened
    fdAvailable,    \* environment: /proc/self/fd can be opened
    handles,        \* the OS handles currently open: subset of {"maps", "fd"}
    mapsFile,       \* content of the opened listing (run-length: pad, padLine, tail)
    mapsPos,        \* number of lines getline has consumed from the stream
    line,           \* analyzeProcMaps: local `line`
    lineCount,      \* analyzeProcMaps: local `lineCount`
    offered,        \* analyzeProcMaps: local `module` of the last iteration, <<m>>, or <<>> when none was extracted
    result,         \* analyzeProcMaps: local `result` (MapsAnalysis)
    dirStream,      \* content of the opened directory in readdir order (run-length)
    dirPos,         \* number of entries readdir has returned
    count,          \* checkFdForFrida: local `count`
    found,          \* checkFdForFrida: local `found`
    dlInfo,         \* what dladdr answered for getpid
    mapsResult,     \* entry point: local `mapsResult`
    fdFrida,        \* entry point: local `fdFrida`
    libcResult,     \* entry point: local `libcResult` (LibcCheck)
    elapsed,        \* entry point: elapsed.count(), in milliseconds
    json            \* entry point: the serialized report (`result`)

vars == <<pc, mapsAvailable, fdAvailable, handles, mapsFile, mapsPos, line,
          lineCount, offered, result, dirStream, dirPos, count, found, dlInfo,
          mapsResult, fdFrida, libcResult, elapsed, json>>

---------------------------------------------------------------------------
(* Program constants *)

MAX_LINES == 10000

MAX_FD_CHECK == 100

npos == -1

(* Bounds of the model *)

\* longest listing drawn line by line from SampleLines
MaxLines == 2

\* longest directory drawn entry by entry from SampleEntries
MaxEntries == 2

---------------------------------------------------------------------------
(* std::string operations *)

SetMin(S) == CHOOSE x \in S : \A y \in S : x <= y

SetMax(S) == CHOOSE x \in S : \A y \in S : x >= y

\* the positions (0-based) at which pat occurs in s
Occurrences(s, pat) ==
    {i \in 0..(Len(s) - Len(pat)) : \A j \in 1..Len(pat) : s[i + j] = pat[j]}

\* s.find(pat)
Find(s, pat) ==
    IF Occurrences(s, pat) = {} THEN npos ELSE SetMin(Occurrences(s, pat))

\* s.rfind(c) for one character
RFind(s, c) ==
    IF Occurrences(s, <<c>>) = {} THEN npos ELSE SetMax(Occurrences(s, <<c>>))

\* s.substr(p)
SubstrFrom(s, p) == SubSeq(s, p + 1, Len(s))

\* s.substr(0, n)
SubstrTo(s, n) == SubSeq(s, 1, n)

\* tolower(static_cast<unsigned char>(c)) in the C locale
ToLower(c) == IF c >= 65 /\ c <= 90 THEN c + 32 ELSE c

\* for (auto& c : s) c = tolower(c)
LowerStr(s) == [i \in 1..Len(s) |-> ToLower(s[i])]

---------------------------------------------------------------------------
(* analyzeProcMaps: literals *)

\* " rwxp"
RwxpMarker == <<32, 114, 119, 120, 112>>

\* " rwx"
RwxMarker == <<32, 114, 119, 120>>

\* "frida"
KwFrida == <<102, 114, 105, 100, 97>>

\* "gum"
KwGum == <<103, 117, 109>>

\* {"frida", "gum-js", "gum_js", "gadget", "substrate", "xposed", "lsposed", "edxposed"}
keywords ==
    << <<102, 114, 105, 100, 97>>,
       <<103, 117, 109, 45, 106, 115>>,
       <<103, 117, 109, 95, 106, 115>>,
       <<103, 97, 100, 103, 101, 116>>,
       <<115, 117, 98, 115, 116, 114, 97, 116, 101>>,
       <<120, 112, 111, 115, 101, 100>>,
       <<108, 115, 112, 111, 115, 101, 100>>,
       <<101, 100, 120, 112, 111, 115, 101, 100>> >>

\* MapsAnalysis result; (default member initialisers)
DefaultMapsAnalysis ==
    [rwxSegments |-> 0, hasRwx |-> FALSE, fridaLibLoaded |-> FALSE,
     suspiciousModules |-> <<>>]

---------------------------------------------------------------------------
(* analyzeProcMaps: one loop iteration *)

\* if (line.find(" rwxp") != npos || line.find(" rwx") != npos)
IsRwxLine(ln) == Find(ln, RwxpMarker) # npos \/ Find(ln, RwxMarker) # npos

\* a variant that tests the two forms one after the other and counts each
CountRwxEachForm(res, ln) ==
    LET n == (IF Find(ln, RwxpMarker) # npos THEN 1 ELSE 0)
             + (IF Find(ln, RwxMarker) # npos THEN 1 ELSE 0)
    IN  IF n > 0
        THEN [res EXCEPT !.rwxSegments = @ + n, !.hasRwx = TRUE]
        ELSE res

\* the rwx test of one iteration
CountRwx(res, ln) ==
    IF IsRwxLine(ln)
    THEN [res EXCEPT !.rwxSegments = @ + 1, !.hasRwx = TRUE]
    ELSE res

\* index of the first keyword found in lowerLine (the loop breaks there), 0 when none
MatchedKeyword(lowerLine) ==
    LET hit == {k \in 1..Len(keywords) : Find(lowerLine, keywords[k]) # npos}
    IN  IF hit = {} THEN 0 ELSE SetMin(hit)

\* a variant that takes every keyword for a Frida keyword
IsFridaKeywordAlways(keyword) == TRUE

\* if (keyword.find("frida") != npos || keyword.find("gum") != npos)
IsFridaKeyword(keyword) == Find(keyword, KwFrida) # npos \/ Find(keyword, KwGum) # npos

\* a variant that searches from the front: line.find('/')
FirstSlash(ln) == Find(ln, <<47>>)

\* size_t lastSlash = line.rfind('/')
LastSlash(ln) == RFind(ln, 47)

\* module = module.substr(0, space) when module.find(' ') finds one
TruncateAtSpace(module) ==
    LET space == Find(module, <<32>>)
    IN  IF space # npos THEN SubstrTo(module, space) ELSE module

\* the module name of a matching line: <<name>>, or <<>> when the line has no '/'
ExtractModule(ln) ==
    LET lastSlash == LastSlash(ln)
    IN  IF lastSlash # npos
        THEN <<TruncateAtSpace(SubstrFrom(ln, lastSlash + 1))>>
        ELSE <<>>

\* a variant that pushes without the uniqueness and emptiness checks
InsertModuleUnchecked(modules, module) == Append(modules, module)

\* uniqueness check and push_back
InsertModule(modules, module) ==
    LET exists == \E i \in 1..Len(modules) : modules[i] = module
    IN  IF ~exists /\ module # <<>> THEN Append(modules, module) ELSE modules

\* the keyword part of one iteration
ScanKeywords(res, ln) ==
    LET k == MatchedKeyword(LowerStr(ln))
    IN  IF k = 0 THEN res
        ELSE LET r1 == IF IsFridaKeyword(keywords[k])
                       THEN [res EXCEPT !.fridaLibLoaded = TRUE] ELSE res
                 m  == ExtractModule(ln)
             IN  IF m = <<>> THEN r1
                 ELSE [r1 EXCEPT !.suspiciousModules = InsertModule(@, m[1])]

\* the body of the while loop for one line
ProcessLine(res, ln) == ScanKeywords(CountRwx(res, ln), ln)

\* the value of the local `module` after the iteration, if it was assigned
OfferedBy(ln) ==
    IF MatchedKeyword(LowerStr(ln)) = 0 THEN <<>> ELSE ExtractModule(ln)

---------------------------------------------------------------------------
(* The mapping listing the process reads *)

\* all sequences over S of length at most n
SeqsUpTo(S, n) == UNION {[1..k -> S] : k \in 0..n}

\* "/data/local/tmp/frida-agent.so rwxp ..."
ExampleLine ==
    <<47, 100, 97, 116, 97, 47, 108, 111, 99, 97, 108, 47, 116, 109, 112, 47,
      102, 114, 105, 100, 97, 45, 97, 103, 101, 110, 116, 46, 115, 111, 32,
      114, 119, 120, 112, 32, 46, 46, 46>>

\* "frida-agent.so"
ExampleModule ==
    <<102, 114, 105, 100, 97, 45, 97, 103, 101, 110, 116, 46, 115, 111>>

\* "/x/frida<TAB>y z": a mapped file whose name holds a tab
TabLine == <<47, 120, 47, 102, 114, 105, 100, 97, 9, 121, 32, 122>>

SampleLines ==
    { ExampleLine,
      TabLine,
      \* "r-xp /l/a.so"
      <<114, 45, 120, 112, 32, 47, 108, 47, 97, 46, 115, 111>>,
      \* " rwxs /x/FRIDA.so"
      <<32, 114, 119, 120, 115, 32, 47, 120, 47, 70, 82, 73, 68, 65, 46, 115, 111>>,
      \* "r-xp /x/gadget.so"
      <<114, 45, 120, 112, 32, 47, 120, 47, 103, 97, 100, 103, 101, 116, 46, 115, 111>>,
      \* "r-xp frida"
      <<114, 45, 120, 112, 32, 102, 114, 105, 100, 97>>,
      \* "/frida/"
      <<47, 102, 114, 105, 100, 97, 47>>,
      \* "/x/gum_js"q\" (a quote and a backslash in the name)
      <<47, 120, 47, 103, 117, 109, 95, 106, 115, 34, 113, 92>>,
      \* "/x/gadget-gum-js"
      <<47, 120, 47, 103, 97, 100, 103, 101, 116, 45, 103, 117, 109, 45, 106, 115>> }

\* the line a long listing repeats: "r-xp" or " rwx"
FillerLines == { <<114, 45, 120, 112>>, <<32, 114, 119, 120>> }

\* the line that may follow the filler lines
TailLines ==
    { ExampleLine,
      \* "r-xp /x/gadget.so"
      <<114, 45, 120, 112, 32, 47, 120, 47, 103, 97, 100, 103, 101, 116, 46, 115, 111>> }

\* a listing is `pad` copies of padLine followed by the lines of tail
NoListing == [pad |-> 0, padLine |-> <<>>, tail |-> <<>>]

ShortListings ==
    {[pad |-> 0, padLine |-> <<>>, tail |-> t] : t \in SeqsUpTo(SampleLines, MaxLines)}

LongListings ==
    {[pad |-> p, padLine |-> l, tail |-> t] :
        p \in {MAX_LINES - 1, MAX_LINES}, l \in FillerLines,
        t \in {<<>>} \cup {<<l2>> : l2 \in TailLines}}

Listings == ShortListings \cup LongListings

NumLines(f) == f.pad + Len(f.tail)

\* the i-th line of the listing, i in 1..NumLines(f)
LineAt(f, i) == IF i <= f.pad THEN f.padLine ELSE f.tail[i - f.pad]

---------------------------------------------------------------------------
(* Handles *)

\* a variant that leaves the handle open
CloseNothing(h, open) == open

\* maps.close() / closedir(dir)
Close(h, open) == open \ {h}

---------------------------------------------------------------------------
(* The loop caps *)

\* a variant that lets one more line through
LineCapAllowsOneMore(n) == n <= MAX_LINES

\* lineCount < MAX_LINES
LineCapAllows(n) == n < MAX_LINES

\* count < MAX_FD_CHECK
FdCapAllows(n) == n < MAX_FD_CHECK

---------------------------------------------------------------------------
(* analyzeProcMaps *)

mapsLocals == <<mapsFile, mapsPos, line, lineCount, offered, result>>

fdLocals == <<dirStream, dirPos, count, found>>

entryLocals == <<mapsResult, fdFrida, libcResult, elapsed, json, dlInfo>>

env == <<mapsAvailable, fdAvailable>>

\* ifstream maps("/proc/self/maps"); if (!maps.is_open()) return result;
AnalyzeOpen ==
    /\ pc = "start"
    /\ \/ /\ ~mapsAvailable
          /\ pc' = "analyze_ret"
          /\ UNCHANGED <<handles, mapsFile>>
       \/ /\ mapsAvailable
          /\ \E f \in Listings : mapsFile' = f
          /\ handles' = handles \cup {"maps"}
          /\ pc' = "maps_loop"
    /\ result' = DefaultMapsAnalysis
    /\ lineCount' = 0
    /\ mapsPos' = 0
    /\ line' = <<>>
    /\ offered' = <<>>
    /\ UNCHANGED <<fdLocals, entryLocals, env>>

\* while (getline(maps, line) && lineCount < MAX_LINES) { ... }: one iteration
MapsIteration ==
    /\ pc = "maps_loop"
    /\ mapsPos < NumLines(mapsFile)
    /\ LineCapAllows(lineCount)
    /\ mapsPos' = mapsPos + 1
    /\ line' = LineAt(mapsFile, mapsPos + 1)
    /\ lineCount' = lineCount + 1
    /\ result' = ProcessLine(result, LineAt(mapsFile, mapsPos + 1))
    /\ offered' = OfferedBy(LineAt(mapsFile, mapsPos + 1))
    /\ UNCHANGED <<pc, handles, mapsFile, fdLocals, entryLocals, env>>

\* the loop condition fails (end of input, or a line read with the cap reached); maps.close()
MapsLoopExit ==
    /\ pc = "maps_loop"
    /\ \/ /\ mapsPos >= NumLines(mapsFile)
          /\ line' = <<>>
          /\ UNCHANGED mapsPos
       \/ /\ mapsPos < NumLines(mapsFile)
          /\ ~LineCapAllows(lineCount)
          /\ mapsPos' = mapsPos + 1
          /\ line' = LineAt(mapsFile, mapsPos + 1)
    /\ handles' = Close("maps", handles)
    /\ pc' = "analyze_ret"
    /\ UNCHANGED <<mapsFile, lineCount, offered, result, fdLocals, entryLocals, env>>

\* return result;  MapsAnalysis mapsResult = analyzeProcMaps();
AnalyzeReturn ==
    /\ pc = "analyze_ret"
    /\ mapsResult' = result
    /\ handles' = Close("maps", handles)
    /\ mapsFile' = NoListing
    /\ mapsPos' = 0
    /\ line' = <<>>
    /\ lineCount' = 0
    /\ offered' = <<>>
    /\ result' = DefaultMapsAnalysis
    /\ pc' = "fd_open"
    /\ UNCHANGED <<fdLocals, fdFrida, libcResult, elapsed, json, dlInfo, env>>

---------------------------------------------------------------------------
(* The descriptor directory the process reads *)

\* a directory entry: d_name, and what readlink gives for it: <<target>>, or <<>>
\* when readlink fails (the entry is no symlink)
SampleEntries ==
    { \* "."
      [d_name |-> <<46>>, link |-> <<>>],
      \* "3" -> "/dev/null"
      [d_name |-> <<51>>, link |-> << <<47, 100, 101, 118, 47, 110, 117, 108, 108>> >>],
      \* "4" -> "/data/local/tmp/re.frida.server"
      [d_name |-> <<52>>,
       link |-> << <<47, 100, 97, 116, 97, 47, 108, 111, 99, 97, 108, 47, 116, 109,
                     112, 47, 114, 101, 46, 102, 114, 105, 100, 97, 46, 115, 101,
                     114, 118, 101, 114>> >>],
      \* "5" -> "/x/Gadget"
      [d_name |-> <<53>>, link |-> << <<47, 120, 47, 71, 97, 100, 103, 101, 116>> >>],
      \* "6" -> "/x/gum-js"
      [d_name |-> <<54>>, link |-> << <<47, 120, 47, 103, 117, 109, 45, 106, 115>> >>],
      \* "7", readlink fails
      [d_name |-> <<55>>, link |-> <<>>],
      \* "8" -> "/x/gum_js"
      [d_name |-> <<56>>, link |-> << <<47, 120, 47, 103, 117, 109, 95, 106, 115>> >>] }

\* the entry a long directory repeats: a descriptor on "/dev/null", or one readlink fails on
FillerEntries ==
    { [d_name |-> <<57>>, link |-> << <<47, 100, 101, 118, 47, 110, 117, 108, 108>> >>],
      [d_name |-> <<57>>, link |-> <<>>] }

\* the entry that may follow the filler entries
TailEntries ==
    { [d_name |-> <<52>>,
       link |-> << <<47, 100, 97, 116, 97, 47, 108, 111, 99, 97, 108, 47, 116, 109,
                     112, 47, 114, 101, 46, 102, 114, 105, 100, 97, 46, 115, 101,
                     114, 118, 101, 114>> >>],
      [d_name |-> <<51>>, link |-> << <<47, 100, 101, 118, 47, 110, 117, 108, 108>> >>] }

\* a directory is `pad` copies of padEntry followed by the entries of tail
NoDirectory == [pad |-> 0, padEntry |-> <<>>, tail |-> <<>>]

ShortDirectories ==
    {[pad |-> 0, padEntry |-> <<>>, tail |-> t] : t \in SeqsUpTo(SampleEntries, MaxEntries)}

LongDirectories ==
    {[pad |-> p, padEntry |-> e, tail |-> t] :
        p \in {MAX_FD_CHECK - 1, MAX_FD_CHECK}, e \in FillerEntries,
        t \in {<<>>} \cup {<<e2>> : e2 \in TailEntries}}

Directories == ShortDirectories \cup LongDirectories

NumEntries(d) == d.pad + Len(d.tail)

\* the i-th entry readdir returns, i in 1..NumEntries(d)
EntryAt(d, i) == IF i <= d.pad THEN d.padEntry ELSE d.tail[i - d.pad]

---------------------------------------------------------------------------
(* checkFdForFrida *)

\* "gadget"
KwGadget == <<103, 97, 100, 103, 101, 116>>

\* "gum-js"
KwGumJs == <<103, 117, 109, 45, 106, 115>>

\* a variant that compares the target as it is, without lower-casing it
TargetMatchesCaseSensitive(target) ==
    \/ Find(target, KwFrida) # npos
    \/ Find(target, KwGadget) # npos
    \/ Find(target, KwGumJs) # npos

\* target lower-cased; find("frida") || find("gadget") || find("gum-js")
TargetMatches(target) ==
    LET t == LowerStr(target)
    IN  \/ Find(t, KwFrida) # npos
        \/ Find(t, KwGadget) # npos
        \/ Find(t, KwGumJs) # npos

\* the body of the loop says break for this entry
EntryHits(entry) ==
    /\ entry.d_name[1] # 46
    /\ entry.link # <<>>
    /\ Len(entry.link[1]) > 0
    /\ TargetMatches(entry.link[1])

\* a variant that gives up when the directory cannot be opened
FdOpenGivesUp ==
    /\ pc = "fd_open"
    /\ \/ /\ ~fdAvailable
          /\ pc' = "failed"
          /\ UNCHANGED <<handles, dirStream>>
       \/ /\ fdAvailable
          /\ \E d \in Directories : dirStream' = d
          /\ handles' = handles \cup {"fd"}
          /\ pc' = "fd_loop"
    /\ found' = FALSE
    /\ count' = 0
    /\ dirPos' = 0
    /\ UNCHANGED <<mapsLocals, entryLocals, env>>

\* DIR* dir = opendir("/proc/self/fd"); if (!dir) return false;
FdOpen ==
    /\ pc = "fd_open"
    /\ \/ /\ ~fdAvailable
          /\ pc' = "fd_ret"
          /\ UNCHANGED <<handles, dirStream>>
       \/ /\ fdAvailable
          /\ \E d \in Directories : dirStream' = d
          /\ handles' = handles \cup {"fd"}
          /\ pc' = "fd_loop"
    /\ found' = FALSE
    /\ count' = 0
    /\ dirPos' = 0
    /\ UNCHANGED <<mapsLocals, entryLocals, env>>

\* while ((entry = readdir(dir)) != nullptr && count < MAX_FD_CHECK) { ... }: one
\* iteration; on a match: found = true; break; closedir(dir)
FdIteration ==
    /\ pc = "fd_loop"
    /\ dirPos < NumEntries(dirStream)
    /\ FdCapAllows(count)
    /\ dirPos' = dirPos + 1
    /\ count' = count + 1
    /\ IF EntryHits(EntryAt(dirStream, dirPos + 1))
       THEN /\ found' = TRUE
            /\ handles' = Close("fd", handles)
            /\ pc' = "fd_ret"
       ELSE UNCHANGED <<found, handles, pc>>
    /\ UNCHANGED <<dirStream, mapsLocals, entryLocals, env>>

\* the loop condition fails (no more entries, or an entry read with the cap reached); closedir(dir)
FdLoopExit ==
    /\ pc = "fd_loop"
    /\ \/ /\ dirPos >= NumEntries(dirStream)
          /\ UNCHANGED dirPos
       \/ /\ dirPos < NumEntries(dirStream)
          /\ ~FdCapAllows(count)
          /\ dirPos' = dirPos + 1
    /\ handles' = Close("fd", handles)
    /\ pc' = "fd_ret"
    /\ UNCHANGED <<dirStream, count, found, mapsLocals, entryLocals, env>>

\* return found;  bool fdFrida = checkFdForFrida();
FdReturn ==
    /\ pc = "fd_ret"
    /\ fdFrida' = found
    /\ dirStream' = NoDirectory
    /\ dirPos' = 0
    /\ count' = 0
    /\ found' = FALSE
    /\ pc' = "libc"
    /\ UNCHANGED <<handles, mapsLocals, mapsResult, libcResult, elapsed, json, dlInfo, env>>

---------------------------------------------------------------------------
(* checkLibcSymbol *)

\* "/system/lib"
SystemLib == <<47, 115, 121, 115, 116, 101, 109, 47, 108, 105, 98>>

\* "/apex/"
Apex == <<47, 97, 112, 101, 120, 47>>

\* "libc.so"
LibcSo == <<108, 105, 98, 99, 46, 115, 111>>

\* "/system/lib64/libc.so"
SystemLibc ==
    <<47, 115, 121, 115, 116, 101, 109, 47, 108, 105, 98, 54, 52, 47, 108, 105,
      98, 99, 46, 115, 111>>

\* "/data/local/tmp/libc.so"
InjectedLibc ==
    <<47, 100, 97, 116, 97, 47, 108, 111, 99, 97, 108, 47, 116, 109, 112, 47,
      108, 105, 98, 99, 46, 115, 111>>

SamplePaths ==
    { SystemLibc,
      InjectedLibc,
      \* "/apex/com.android.runtime/lib64/bionic/libc.so"
      <<47, 97, 112, 101, 120, 47, 99, 111, 109, 46, 97, 110, 100, 114, 111, 105,
        100, 46, 114, 117, 110, 116, 105, 109, 101, 47, 108, 105, 98, 54, 52, 47,
        98, 105, 111, 110, 105, 99, 47, 108, 105, 98, 99, 46, 115, 111>>,
      \* "/data/local/tmp/libhook.so"
      <<47, 100, 97, 116, 97, 47, 108, 111, 99, 97, 108, 47, 116, 109, 112, 47,
        108, 105, 98, 104, 111, 111, 107, 46, 115, 111>>,
      \* "/data/app/system/lib/x.so"
      <<47, 100, 97, 116, 97, 47, 97, 112, 112, 47, 115, 121, 115, 116, 101, 109,
        47, 108, 105, 98, 47, 120, 46, 115, 111>>,
      \* "/d/"q\.so" (a quote and a backslash in the path)
      <<47, 100, 47, 34, 113, 92, 46, 115, 111>> }

\* what dladdr(symbol, &info) answers: its return value and info.dli_fname
\* (<<path>>, or <<>> for nullptr)
DlAnswers ==
    { [ret |-> 0, dli_fname |-> <<>>], [ret |-> 1, dli_fname |-> <<>>] }
    \cup {[ret |-> 1, dli_fname |-> <<p>>] : p \in SamplePaths}

NoDlInfo == [ret |-> 0, dli_fname |-> <<>>]

\* LibcCheck result; (default member initialisers)
DefaultLibcCheck == [soPath |-> <<>>, unexpected |-> FALSE]

\* a variant that asks for one fragment to be missing instead of all three
IsUnexpectedPathAnyMissing(path) ==
    \/ Find(path, SystemLib) = npos
    \/ Find(path, Apex) = npos
    \/ Find(path, LibcSo) = npos

\* the three find() tests on the path
IsUnexpectedPath(path) ==
    /\ Find(path, SystemLib) = npos
    /\ Find(path, Apex) = npos
    /\ Find(path, LibcSo) = npos

\* the LibcCheck built from dladdr's answer
LibcCheckOf(info) ==
    IF info.ret # 0 /\ info.dli_fname # <<>>
    THEN [soPath |-> info.dli_fname[1], unexpected |-> IsUnexpectedPath(info.dli_fname[1])]
    ELSE DefaultLibcCheck

\* LibcCheck libcResult = checkLibcSymbol();
CheckLibcSymbol ==
    /\ pc = "libc"
    /\ \E info \in DlAnswers :
          /\ dlInfo' = info
          /\ libcResult' = LibcCheckOf(info)
    /\ pc' = "build"
    /\ UNCHANGED <<handles, mapsLocals, fdLocals, mapsResult, fdFrida, elapsed, json, env>>

---------------------------------------------------------------------------
(* Serialization *)

\* if (c == '"' || c == '\\') escaped += '\\';  escaped += c;
EscapeChar(c) == IF c = 34 \/ c = 92 THEN <<92, c>> ELSE <<c>>

RECURSIVE escapeJsonString(_)
escapeJsonString(str) ==
    IF str = <<>> THEN <<>>
    ELSE EscapeChar(Head(str)) \o escapeJsonString(Tail(str))

\* the loop of vectorToJsonArray from element i on
RECURSIVE ArrayElements(_, _)
ArrayElements(vec, i) ==
    IF i > Len(vec) THEN <<>>
    ELSE <<34>> \o escapeJsonString(vec[i]) \o <<34>>
         \o (IF i < Len(vec) THEN <<44>> ELSE <<>>)
         \o ArrayElements(vec, i + 1)

vectorToJsonArray(vec) ==
    IF vec = <<>> THEN <<91, 93>>
    ELSE <<91>> \o ArrayElements(vec, 1) \o <<93>>

\* ostream << n for a non-negative whole number: its decimal digits
RECURSIVE NumberText(_)
NumberText(n) ==
    IF n < 10 THEN <<48 + n>>
    ELSE NumberText(n \div 10) \o <<48 + (n % 10)>>

\* (b ? "true" : "false")
BoolText(b) == IF b THEN <<116, 114, 117, 101>> ELSE <<102, 97, 108, 115, 101>>

\* the field names of the report, in the order written
FieldNames ==
    [rwxSegments |-> <<114, 119, 120, 83, 101, 103, 109, 101, 110, 116, 115>>,
     hasRwx |-> <<104, 97, 115, 82, 119, 120>>,
     fridaLibLoaded |-> <<102, 114, 105, 100, 97, 76, 105, 98, 76, 111, 97, 100, 101, 100>>,
     fdFrida |-> <<102, 100, 70, 114, 105, 100, 97>>,
     libcGetpidSo |-> <<108, 105, 98, 99, 71, 101, 116, 112, 105, 100, 83, 111>>,
     libcGetpidUnexpected |-> <<108, 105, 98, 99, 71, 101, 116, 112, 105, 100, 85, 110,
                                101, 120, 112, 101, 99, 116, 101, 100>>,
     nativeTimeMs |-> <<110, 97, 116, 105, 118, 101, 84, 105, 109, 101, 77, 115>>,
     suspiciousModules |-> <<115, 117, 115, 112, 105, 99, 105, 111, 117, 115, 77, 111,
                             100, 117, 108, 101, 115>>]

\* "\"name\":"
Key(name) == <<34>> \o name \o <<34, 58>>

\* json << "{" << ... << "}"
BuildReport(maps, fd, libc, ms) ==
    <<123>>
    \o Key(FieldNames.rwxSegments) \o NumberText(maps.rwxSegments) \o <<44>>
    \o Key(FieldNames.hasRwx) \o BoolText(maps.hasRwx) \o <<44>>
    \o Key(FieldNames.fridaLibLoaded) \o BoolText(maps.fridaLibLoaded) \o <<44>>
    \o Key(FieldNames.fdFrida) \o BoolText(fd) \o <<44>>
    \o Key(FieldNames.libcGetpidSo) \o <<34>> \o escapeJsonString(libc.soPath) \o <<34, 44>>
    \o Key(FieldNames.libcGetpidUnexpected) \o BoolText(libc.unexpected) \o <<44>>
    \o Key(FieldNames.nativeTimeMs) \o NumberText(ms) \o <<44>>
    \o Key(FieldNames.suspiciousModules) \o vectorToJsonArray(maps.suspiciousModules)
    \o <<125>>

\* the elapsed times drawn: whole milliseconds, which operator<< writes as digits
ElapsedTimes == {0, 12}

\* endTime - startTime; the ostringstream; string result = json.str(); return
collectNativeSignals ==
    /\ pc = "build"
    /\ \E ms \in ElapsedTimes :
          /\ elapsed' = ms
          /\ json' = BuildReport(mapsResult, fdFrida, libcResult, ms)
    /\ pc' = "done"
    /\ UNCHANGED <<handles, mapsLocals, fdLocals, mapsResult, fdFrida, libcResult, dlInfo, env>>

---------------------------------------------------------------------------
(* The entry point as a state machine *)

Init ==
    /\ pc = "start"
    /\ mapsAvailable \in BOOLEAN
    /\ fdAvailable \in BOOLEAN
    /\ handles = {}
    /\ mapsFile = NoListing
    /\ mapsPos = 0
    /\ line = <<>>
    /\ lineCount = 0
    /\ offered = <<>>
    /\ result = DefaultMapsAnalysis
    /\ dirStream = NoDirectory
    /\ dirPos = 0
    /\ count = 0
    /\ found = FALSE
    /\ dlInfo = NoDlInfo
    /\ mapsResult = DefaultMapsAnalysis
    /\ fdFrida = FALSE
    /\ libcResult = DefaultLibcCheck
    /\ elapsed = 0
    /\ json = <<>>

Next ==
    \/ AnalyzeOpen
    \/ MapsIteration
    \/ MapsLoopExit
    \/ AnalyzeReturn
    \/ FdOpen
    \/ FdIteration
    \/ FdLoopExit
    \/ FdReturn
    \/ CheckLibcSymbol
    \/ collectNativeSignals

Spec == Init /\ [][Next]_vars

---------------------------------------------------------------------------
(* Vocabulary of the properties, stated on the text, not through the        *)
(* operators above                                                          *)

\* pat occurs in s
Contains(s, pat) ==
    \E off \in 0..(Len(s) - Len(pat)) : \A j \in 1..Len(pat) : s[off + j] = pat[j]

\* pat (lower case) occurs in s when case is ignored
ContainsIgnoringCase(s, pat) ==
    \E off \in 0..(Len(s) - Len(pat)) :
        \A j \in 1..Len(pat) :
            \/ s[off + j] = pat[j]
            \/ (s[off + j] >= 65 /\ s[off + j] <= 90 /\ s[off + j] + 32 = pat[j])

AnyKeywordIn(ln) ==
    \E k \in 1..Len(keywords) : ContainsIgnoringCase(ln, keywords[k])

\* "gum_js"
KwGumUnderscoreJs == <<103, 117, 109, 95, 106, 115>>

FridaKeywordIn(ln) ==
    \/ ContainsIgnoringCase(ln, KwFrida)
    \/ ContainsIgnoringCase(ln, KwGumJs)
    \/ ContainsIgnoringCase(ln, KwGumUnderscoreJs)

\* the lines of the listing that analyzeProcMaps may process: the first MAX_LINES
CappedLines(f) ==
    1..(IF NumLines(f) < MAX_LINES THEN NumLines(f) ELSE MAX_LINES)

\* n is the text after the last '/' of ln, cut at the first character of stops
IsSegmentAfterLastSlash(ln, n, stops) ==
    \E k \in 1..Len(ln) :
        /\ ln[k] = 47
        /\ \A j \in (k + 1)..Len(ln) : ln[j] # 47
        /\ k + Len(n) <= Len(ln)
        /\ n = SubSeq(ln, k + 1, k + Len(n))
        /\ \A j \in 1..Len(n) : n[j] \notin stops
        /\ (k + Len(n) = Len(ln) \/ ln[k + Len(n) + 1] \in stops)

\* isspace: space, \t, \n, \v, \f, \r
Whitespace == {32, 9, 10, 11, 12, 13}

\* the lines, among the first MAX_LINES, that offer the name n
LinesOffering(f, n) ==
    {i \in CappedLines(f) :
        /\ AnyKeywordIn(LineAt(f, i))
        /\ IsSegmentAfterLastSlash(LineAt(f, i), n, {32})}

---------------------------------------------------------------------------
(* C1: when analyzeProcMaps returns, suspiciousModules holds no empty      *)
(* string and no two equal entries, every entry is a name some processed    *)
(* line offered, and the entries are in the order of their first            *)
(* occurrence in the listing.                                               *)
C1_UniqueNonEmptyFirstSeen ==
    pc = "analyze_ret" =>
        LET m == result.suspiciousModules
            First(n) == SetMin(LinesOffering(mapsFile, n))
        IN  /\ \A i \in 1..Len(m) : m[i] # <<>>
            /\ \A i, j \in 1..Len(m) : i # j => m[i] # m[j]
            /\ \A i \in 1..Len(m) : LinesOffering(mapsFile, m[i]) # {}
            /\ \A i, j \in 1..Len(m) : i < j => First(m[i]) < First(m[j])

\* a listing in which the same name is offered twice has been scanned
C1_Witness ==
    /\ pc = "analyze_ret"
    /\ Len(result.suspiciousModules) = 1
    /\ Cardinality(LinesOffering(mapsFile, result.suspiciousModules[1])) = 2

(* C2 as stated: the name offered by a processed line that matches a        *)
(* keyword is the text after its last '/', cut at the first whitespace      *)
(* character.                                                               *)
C2_AsStated ==
    (pc = "maps_loop" /\ lineCount >= 1 /\ AnyKeywordIn(line) /\ Contains(line, <<47>>)) =>
        /\ offered # <<>>
        /\ IsSegmentAfterLastSlash(line, offered[1], Whitespace)

(* C2, amended: the name offered by a processed line that matches a keyword *)
(* is the text after its last '/', cut at the first space character (a tab  *)
(* does not end it); a matching line without '/' offers no name; and the    *)
(* listing holding only the example line gives hasRwx, fridaLibLoaded and   *)
(* suspiciousModules = <<"frida-agent.so">>.                                *)
C2_OfferedName ==
    /\ (pc = "maps_loop" /\ lineCount >= 1 /\ AnyKeywordIn(line)) =>
          IF Contains(line, <<47>>)
          THEN /\ offered # <<>>
               /\ IsSegmentAfterLastSlash(line, offered[1], {32})
          ELSE offered = <<>>
    /\ (pc = "analyze_ret" /\ mapsFile.pad = 0 /\ mapsFile.tail = <<ExampleLine>>) =>
          /\ result.hasRwx
          /\ result.fridaLibLoaded
          /\ result.suspiciousModules = <<ExampleModule>>

\* the line whose name holds a tab has been processed and its name kept the tab
C2_Witness ==
    /\ pc = "maps_loop"
    /\ lineCount >= 1
    /\ line = TabLine
    /\ offered # <<>>
    /\ \E j \in 1..Len(offered[1]) : offered[1][j] = 9

(* C9: when analyzeProcMaps returns: if no line of the listing contains a   *)
(* keyword (case ignored) then suspiciousModules is empty and               *)
(* fridaLibLoaded is false; and fridaLibLoaded is true only if some         *)
(* processed line contains frida, gum-js or gum_js.                         *)
C9_KeywordsDecide ==
    pc = "analyze_ret" =>
        /\ (\A i \in 1..NumLines(mapsFile) : ~AnyKeywordIn(LineAt(mapsFile, i))) =>
              (result.suspiciousModules = <<>> /\ ~result.fridaLibLoaded)
        /\ result.fridaLibLoaded =>
              \E i \in CappedLines(mapsFile) : FridaKeywordIn(LineAt(mapsFile, i))

\* a line matching only gadget was recorded without setting fridaLibLoaded
C9_Witness ==
    /\ pc = "analyze_ret"
    /\ result.suspiciousModules # <<>>
    /\ ~result.fridaLibLoaded

(* C10: when analyzeProcMaps returns, rwxSegments is the number of lines    *)
(* among the first MAX_LINES that contain " rwxp" or " rwx", each counted   *)
(* once, and hasRwx is true exactly when rwxSegments >= 1.                  *)
C10_RwxCount ==
    pc = "analyze_ret" =>
        /\ result.rwxSegments =
              Cardinality({i \in CappedLines(mapsFile) :
                              \/ Contains(LineAt(mapsFile, i), RwxpMarker)
                              \/ Contains(LineAt(mapsFile, i), RwxMarker)})
        /\ result.hasRwx <=> (result.rwxSegments >= 1)

\* a listing longer than the cap whose lines carry the marker has been scanned
C10_Witness ==
    /\ pc = "analyze_ret"
    /\ NumLines(mapsFile) > MAX_LINES
    /\ result.rwxSegments = MAX_LINES

---------------------------------------------------------------------------
(* Vocabulary of the descriptor and libc properties *)

\* the entry is a symlink whose target, case ignored, holds frida, gadget or gum-js
IsFridaLink(entry) ==
    /\ entry.link # <<>>
    /\ \/ ContainsIgnoringCase(entry.link[1], KwFrida)
       \/ ContainsIgnoringCase(entry.link[1], KwGadget)
       \/ ContainsIgnoringCase(entry.link[1], KwGumJs)

\* the entries of the directory that checkFdForFrida may examine: the first MAX_FD_CHECK
CappedEntries(d) ==
    1..(IF NumEntries(d) < MAX_FD_CHECK THEN NumEntries(d) ELSE MAX_FD_CHECK)

\* s begins with pat
StartsWith(s, pat) == Len(s) >= Len(pat) /\ SubSeq(s, 1, Len(pat)) = pat

\* dladdr resolved getpid to a module path
Resolved == dlInfo.ret # 0 /\ dlInfo.dli_fname # <<>>

(* C3 as stated: checkFdForFrida returns true if any entry of the directory *)
(* is a symlink whose target matches, and false if none does or the         *)
(* directory cannot be opened.                                              *)
C3_AsStated ==
    pc = "fd_ret" =>
        (found <=> \E i \in 1..NumEntries(dirStream) : IsFridaLink(EntryAt(dirStream, i)))

(* C3, amended: checkFdForFrida returns true exactly when one of the first  *)
(* MAX_FD_CHECK entries readdir returns has a name not starting with '.'    *)
(* and is a symlink whose target matches; it returns false otherwise, also  *)
(* when the directory cannot be opened or the only matching entries come    *)
(* after the first MAX_FD_CHECK.                                            *)
C3_FdResult ==
    pc = "fd_ret" =>
        /\ found <=>
              \E i \in CappedEntries(dirStream) :
                  /\ EntryAt(dirStream, i).d_name[1] # 46
                  /\ IsFridaLink(EntryAt(dirStream, i))
        /\ ~fdAvailable => ~found

\* a directory whose only matching entry is the 101st has been scanned
C3_Witness ==
    /\ pc = "fd_ret"
    /\ ~found
    /\ NumEntries(dirStream) = MAX_FD_CHECK + 1
    /\ IsFridaLink(EntryAt(dirStream, MAX_FD_CHECK + 1))

C6_AsStated == mapsPos <= MAX_LINES /\ dirPos <= MAX_FD_CHECK

\* the counters stay within the caps and what lies after a cap decides nothing
CappedScans ==
    /\ lineCount <= MAX_LINES
    /\ mapsPos <= lineCount + 1
    /\ count <= MAX_FD_CHECK
    /\ dirPos <= count + 1
    /\ pc = "analyze_ret" =>
          /\ result.rwxSegments <= MAX_LINES
          /\ (\A i \in CappedLines(mapsFile) : ~AnyKeywordIn(LineAt(mapsFile, i))) =>
                (result.suspiciousModules = <<>> /\ ~result.fridaLibLoaded)
          /\ (\A i \in CappedLines(mapsFile) : ~Contains(LineAt(mapsFile, i), RwxMarker)) =>
                (result.rwxSegments = 0 /\ ~result.hasRwx)
    /\ pc = "fd_ret" =>
          ((\A i \in CappedEntries(dirStream) : ~IsFridaLink(EntryAt(dirStream, i))) => ~found)

\* an upper bound on the steps the call still takes from the present state
StepsLeft ==
    CASE pc = "start"       -> MAX_LINES + MAX_FD_CHECK + 9
      [] pc = "maps_loop"   -> (MAX_LINES - lineCount) + MAX_FD_CHECK + 8
      [] pc = "analyze_ret" -> MAX_FD_CHECK + 7
      [] pc = "fd_open"     -> MAX_FD_CHECK + 6
      [] pc = "fd_loop"     -> (MAX_FD_CHECK - count) + 5
      [] pc = "fd_ret"      -> 3
      [] pc = "libc"        -> 2
      [] pc = "build"       -> 1
      [] pc = "done"        -> 0

(* C6, amended: each scan ends within its cap: analyzeProcMaps processes at *)
(* most MAX_LINES lines and checkFdForFrida examines at most MAX_FD_CHECK   *)
(* entries, each having fetched at most one further line or entry, which it *)
(* discards; the lines and entries after the cap do not influence the       *)
(* result; and every step brings the return of the report nearer: the       *)
(* number of steps left, bounded by the caps, never goes below zero and     *)
(* decreases with each step.                                                *)
C6_CappedScansTerminate ==
    /\ [](CappedScans /\ StepsLeft >= 0)
    /\ [][StepsLeft' < StepsLeft]_vars

\* both scans have met their cap: each fetched one item more than it processed
C6_Witness ==
    /\ pc = "fd_ret"
    /\ dirPos = MAX_FD_CHECK + 1
    /\ count = MAX_FD_CHECK
    /\ mapsResult.rwxSegments = MAX_LINES

(* C7: the handle a detector opens is closed when it returns, on every exit *)
(* path; no handle of the maps scan is open during the descriptor scan, and *)
(* none is open from the libc check on.                                     *)
C7_HandlesClosed ==
    /\ pc = "analyze_ret" => "maps" \notin handles
    /\ pc = "fd_ret" => "fd" \notin handles
    /\ pc \in {"fd_open", "fd_loop", "fd_ret"} => "maps" \notin handles
    /\ pc \in {"libc", "build", "done"} => handles = {}

\* the descriptor scan stopped at a match before the end of the directory
C7_Witness ==
    /\ pc = "fd_ret"
    /\ found
    /\ dirPos < NumEntries(dirStream)
    /\ handles = {}

(* C8: a listing that cannot be opened gives the default MapsAnalysis, a    *)
(* directory that cannot be opened gives false; neither takes the call off  *)
(* its path to the return of the report, the other detectors give the       *)
(* results their own inputs decide, and the report holds all eight fields.  *)
C8_UnavailableResource ==
    /\ (pc = "analyze_ret" /\ ~mapsAvailable) =>
          result = [rwxSegments |-> 0, hasRwx |-> FALSE, fridaLibLoaded |-> FALSE,
                    suspiciousModules |-> <<>>]
    /\ (pc = "fd_ret" /\ ~fdAvailable) => ~found
    /\ pc \in {"start", "maps_loop", "analyze_ret", "fd_open", "fd_loop", "fd_ret",
               "libc", "build", "done"}
    /\ (pc = "fd_ret" /\ ~mapsAvailable) =>
          (found <=> \E i \in CappedEntries(dirStream) : IsFridaLink(EntryAt(dirStream, i)))
    /\ (pc = "build" /\ (~mapsAvailable \/ ~fdAvailable)) =>
          (libcResult.unexpected <=>
              /\ Resolved
              /\ ~Contains(dlInfo.dli_fname[1], SystemLib)
              /\ ~Contains(dlInfo.dli_fname[1], Apex)
              /\ ~Contains(dlInfo.dli_fname[1], LibcSo))
    /\ pc = "done" =>
          /\ ~mapsAvailable =>
                /\ mapsResult.rwxSegments = 0
                /\ ~mapsResult.hasRwx
                /\ ~mapsResult.fridaLibLoaded
                /\ mapsResult.suspiciousModules = <<>>
          /\ ~fdAvailable => ~fdFrida
          /\ \A name \in {FieldNames.rwxSegments, FieldNames.hasRwx,
                          FieldNames.fridaLibLoaded, FieldNames.fdFrida,
                          FieldNames.libcGetpidSo, FieldNames.libcGetpidUnexpected,
                          FieldNames.nativeTimeMs, FieldNames.suspiciousModules} :
                Contains(json, <<34>> \o name \o <<34, 58>>)

\* neither resource could be opened and the report still carries the libc finding
C8_Witness ==
    /\ pc = "done"
    /\ ~mapsAvailable
    /\ ~fdAvailable
    /\ libcResult.unexpected
    /\ json # <<>>

---------------------------------------------------------------------------
(* Reading the report back: a JSON reader for the eight-field record.       *)
(* A parse step takes the text and a position (1-based; 0 after a failure)  *)
(* and gives [ok, val, next].  Strings are read as RFC 8259 defines them:   *)
(* a quote ends the string, a backslash introduces an escape, and a         *)
(* character below U+0020 may not appear unescaped.                         *)

ParseFailure == [ok |-> FALSE, val |-> <<>>, next |-> 0]

\* the text holds lit at position i
ParseLiteral(t, i, lit) ==
    IF i >= 1 /\ i + Len(lit) - 1 <= Len(t) /\ SubSeq(t, i, i + Len(lit) - 1) = lit
    THEN [ok |-> TRUE, val |-> lit, next |-> i + Len(lit)]
    ELSE ParseFailure

\* the character an escape letter stands for (b f n r t), 0 when it is none
EscapeValue(c) ==
    CASE c = 98 -> 8 [] c = 102 -> 12 [] c = 110 -> 10 [] c = 114 -> 13
      [] c = 116 -> 9 [] OTHER -> 0

\* the number of backslashes that stand in a row right before position j,
\* counted within the string that starts at position i
BackslashesBefore(t, i, j) ==
    (j - 1) - SetMax({k \in (i - 1)..(j - 1) : k = i - 1 \/ t[k] # 92})

\* the character at position j is the second character of an escape
IsEscaped(t, i, j) == BackslashesBefore(t, i, j) % 2 = 1

\* the character at position j is a backslash that introduces an escape
IsIntroducer(t, i, j) == t[j] = 92 /\ ~IsEscaped(t, i, j)

\* the string whose first character stands at position i and whose closing
\* quote stands at position q
StringBetween(t, i, q) ==
    LET kept  == {j \in i..(q - 1) : ~IsIntroducer(t, i, j)}
        nth(k) == CHOOSE j \in kept : Cardinality({x \in kept : x < j}) = k - 1
        char(j) == IF ~IsEscaped(t, i, j) \/ t[j] \in {34, 92, 47} THEN t[j]
                   ELSE EscapeValue(t[j])
        wellFormed ==
            \A j \in i..(q - 1) :
                /\ t[j] >= 32
                /\ IsEscaped(t, i, j) => (t[j] \in {34, 92, 47} \/ EscapeValue(t[j]) # 0)
    IN  IF wellFormed
        THEN [ok |-> TRUE, val |-> [k \in 1..Cardinality(kept) |-> char(nth(k))],
              next |-> q + 1]
        ELSE ParseFailure

\* the closing quote is the first quote that is not escaped
ParseStringBody(t, i) ==
    LET closing == {j \in i..Len(t) : t[j] = 34 /\ ~IsEscaped(t, i, j)}
    IN  IF closing = {} THEN ParseFailure
        ELSE StringBetween(t, i, SetMin(closing))

ParseString(t, i) ==
    IF i >= 1 /\ i <= Len(t) /\ t[i] = 34
    THEN ParseStringBody(t, i + 1)
    ELSE ParseFailure

IsDigit(c) == c >= 48 /\ c <= 57

RECURSIVE ParseDigits(_, _, _)
ParseDigits(t, i, n) ==
    IF i <= Len(t) /\ IsDigit(t[i])
    THEN ParseDigits(t, i + 1, 10 * n + (t[i] - 48))
    ELSE [ok |-> TRUE, val |-> n, next |-> i]

ParseNumber(t, i) ==
    IF i >= 1 /\ i <= Len(t) /\ IsDigit(t[i])
    THEN ParseDigits(t, i, 0)
    ELSE ParseFailure

ParseBoolean(t, i) ==
    IF ParseLiteral(t, i, BoolText(TRUE)).ok
    THEN [ok |-> TRUE, val |-> TRUE, next |-> i + Len(BoolText(TRUE))]
    ELSE IF ParseLiteral(t, i, BoolText(FALSE)).ok
    THEN [ok |-> TRUE, val |-> FALSE, next |-> i + Len(BoolText(FALSE))]
    ELSE ParseFailure

\* after an element of the array: "]" ends it, "," brings another string
RECURSIVE ParseArrayRest(_, _, _)
ParseArrayRest(t, i, acc) ==
    IF i > Len(t) THEN ParseFailure
    ELSE IF t[i] = 93 THEN [ok |-> TRUE, val |-> acc, next |-> i + 1]
    ELSE IF t[i] = 44
         THEN LET e == ParseString(t, i + 1)
              IN  IF e.ok THEN ParseArrayRest(t, e.next, Append(acc, e.val))
                  ELSE ParseFailure
    ELSE ParseFailure

ParseStringArray(t, i) ==
    IF ~(i >= 1 /\ i <= Len(t) /\ t[i] = 91) THEN ParseFailure
    ELSE IF i + 1 <= Len(t) /\ t[i + 1] = 93
         THEN [ok |-> TRUE, val |-> <<>>, next |-> i + 2]
    ELSE LET e == ParseString(t, i + 1)
         IN  IF e.ok THEN ParseArrayRest(t, e.next, <<e.val>>) ELSE ParseFailure

\* the position after "name": at position i
AfterKey(t, i, name) == ParseLiteral(t, i, Key(name)).next

\* the position after the separator c at position i
AfterChar(t, i, c) == ParseLiteral(t, i, <<c>>).next

\* the record read from the text, under the fixed eight-field contract
ParseReport(t) ==
    LET f1 == ParseNumber(t, AfterKey(t, AfterChar(t, 1, 123), FieldNames.rwxSegments))
        f2 == ParseBoolean(t, AfterKey(t, AfterChar(t, f1.next, 44), FieldNames.hasRwx))
        f3 == ParseBoolean(t, AfterKey(t, AfterChar(t, f2.next, 44), FieldNames.fridaLibLoaded))
        f4 == ParseBoolean(t, AfterKey(t, AfterChar(t, f3.next, 44), FieldNames.fdFrida))
        f5 == ParseString(t, AfterKey(t, AfterChar(t, f4.next, 44), FieldNames.libcGetpidSo))
        f6 == ParseBoolean(t, AfterKey(t, AfterChar(t, f5.next, 44), FieldNames.libcGetpidUnexpected))
        f7 == ParseNumber(t, AfterKey(t, AfterChar(t, f6.next, 44), FieldNames.nativeTimeMs))
        f8 == ParseStringArray(t, AfterKey(t, AfterChar(t, f7.next, 44), FieldNames.suspiciousModules))
    IN  IF f8.ok /\ AfterChar(t, f8.next, 125) = Len(t) + 1
        THEN [ok |-> TRUE,
              val |-> [rwxSegments |-> f1.val, hasRwx |-> f2.val,
                       fridaLibLoaded |-> f3.val, fdFrida |-> f4.val,
                       libcGetpidSo |-> f5.val, libcGetpidUnexpected |-> f6.val,
                       nativeTimeMs |-> f7.val, suspiciousModules |-> f8.val]]
        ELSE [ok |-> FALSE, val |-> <<>>]

\* the values the entry point serialized
ReportValues ==
    [rwxSegments |-> mapsResult.rwxSegments, hasRwx |-> mapsResult.hasRwx,
     fridaLibLoaded |-> mapsResult.fridaLibLoaded, fdFrida |-> fdFrida,
     libcGetpidSo |-> libcResult.soPath,
     libcGetpidUnexpected |-> libcResult.unexpected,
     nativeTimeMs |-> elapsed, suspiciousModules |-> mapsResult.suspiciousModules]

\* the string holds a character below U+0020
HasControlCharacter(str) == \E j \in 1..Len(str) : str[j] < 32

(* C5: the serialized report reads back, under the eight-field contract,    *)
(* to exactly the values that were serialized, whatever characters the      *)
(* library path and the module names hold.                                  *)
C5_RoundTrip ==
    pc = "done" => ParseReport(json) = [ok |-> TRUE, val |-> ReportValues]

\* reports whose strings hold no control character do read back: quote and
\* backslash are escaped
RoundTripWithoutControlCharacters ==
    (/\ pc = "done"
     /\ ~HasControlCharacter(libcResult.soPath)
     /\ \A i \in 1..Len(mapsResult.suspiciousModules) :
           ~HasControlCharacter(mapsResult.suspiciousModules[i])) =>
        ParseReport(json) = [ok |-> TRUE, val |-> ReportValues]

===========================================================================
